---- MODULE Spec2Model ----
(***************************************************************************)
(* A model of public/test-chatbase-convo-formatted.py: one run of main,    *)
(* from the command line to the exit status, with the formatting functions *)
(* format_timestamp and format_conversation computed as the code computes  *)
(* them.                                                                   *)
(*                                                                         *)
(* Python values are tagged records:                                       *)
(*   [t |-> "absent"]                a key that is not in a dict           *)
(*   [t |-> "null"]                  None (JSON null)                      *)
(*   [t |-> "str",  s |-> <<chars>>] a str, as the tuple of its characters *)
(*   [t |-> "list", items |-> <<>>]  a list                                *)
(*   [t |-> "dict", d |-> f]         a dict; f maps every key of Keys to   *)
(*                                   its value, or to Absent               *)
(* Text that is only concatenated and compared is a TLA+ string.           *)
(***************************************************************************)
EXTENDS Integers, Sequences, FiniteSets, TLC

\* ---------------------------------------------------------------- bounds
\* Longest list of conversations in a response body.
MaxConvs == 2
\* Longest list of messages in a conversation.
MaxMsgs == 2

\* ----------------------------------------------------- program constants
\* "=" * 80, "-" * 80, "#" * 80
RuleWidth == 80
\* json.dumps(data, indent=2)
DumpIndent == 2

\* ----------------------------------------------------------- characters
\* A str is the tuple of its characters, each a one-character string.  The
\* characters of the inputs are U+0020..U+007E, tab, line feed, carriage
\* return and U+00A0..U+00FF; a character above U+00FF, which a string of this
\* module cannot hold, is written "[U+xxxx]".
\* U+0020..U+007E, in code order, less U+0060 (no string of this module can
\* hold a grave accent).
AsciiChars ==
  <<" ", "!", "\"", "#", "$", "%", "&", "'", "(", ")", "*", "+", ",", "-", ".", "/",
  "0", "1", "2", "3", "4", "5", "6", "7", "8", "9", ":", ";", "<", "=", ">", "?",
  "@", "A", "B", "C", "D", "E", "F", "G", "H", "I", "J", "K", "L", "M", "N", "O",
  "P", "Q", "R", "S", "T", "U", "V", "W", "X", "Y", "Z", "[", "\\", "]", "^", "_",
  "a", "b", "c", "d", "e", "f", "g", "h", "i", "j", "k", "l", "m", "n", "o",
  "p", "q", "r", "s", "t", "u", "v", "w", "x", "y", "z", "{", "|", "}", "~">>
\* U+00A0..U+00FF, in code order.
Latin1Chars ==
  <<" ", "¡", "¢", "£", "¤", "¥", "¦", "§", "¨", "©", "ª", "«", "¬", "­", "®", "¯",
  "°", "±", "²", "³", "´", "µ", "¶", "·", "¸", "¹", "º", "»", "¼", "½", "¾", "¿",
  "À", "Á", "Â", "Ã", "Ä", "Å", "Æ", "Ç", "È", "É", "Ê", "Ë", "Ì", "Í", "Î", "Ï",
  "Ð", "Ñ", "Ò", "Ó", "Ô", "Õ", "Ö", "×", "Ø", "Ù", "Ú", "Û", "Ü", "Ý", "Þ", "ß",
  "à", "á", "â", "ã", "ä", "å", "æ", "ç", "è", "é", "ê", "ë", "ì", "í", "î", "ï",
  "ð", "ñ", "ò", "ó", "ô", "õ", "ö", "÷", "ø", "ù", "ú", "û", "ü", "ý", "þ", "ÿ">>
\* The characters str.lower() changes, and what it makes of each.
UpperChars ==
  <<"A", "B", "C", "D", "E", "F", "G", "H", "I", "J", "K", "L", "M",
  "N", "O", "P", "Q", "R", "S", "T", "U", "V", "W", "X", "Y", "Z",
  "À", "Á", "Â", "Ã", "Ä", "Å", "Æ", "Ç", "È", "É", "Ê", "Ë", "Ì",
  "Í", "Î", "Ï", "Ð", "Ñ", "Ò", "Ó", "Ô", "Õ", "Ö", "Ø", "Ù", "Ú",
  "Û", "Ü", "Ý", "Þ">>
LowerChars ==
  <<"a", "b", "c", "d", "e", "f", "g", "h", "i", "j", "k", "l", "m",
  "n", "o", "p", "q", "r", "s", "t", "u", "v", "w", "x", "y", "z",
  "à", "á", "â", "ã", "ä", "å", "æ", "ç", "è", "é", "ê", "ë", "ì",
  "í", "î", "ï", "ð", "ñ", "ò", "ó", "ô", "õ", "ö", "ø", "ù", "ú",
  "û", "ü", "ý", "þ">>
DigitChars == <<"0","1","2","3","4","5","6","7","8","9">>
HexChars == <<"0","1","2","3","4","5","6","7","8","9","a","b","c","d","e","f">>

IndexOf(c, table) ==
  IF \E i \in 1..Len(table) : table[i] = c
  THEN CHOOSE i \in 1..Len(table) : table[i] = c
  ELSE 0

\* c.lower() and c.upper() of one character, as a str: the upper case of
\* U+00DF is two characters, that of U+00FF and U+00B5 is above U+00FF.
LowerChar(c) ==
  IF IndexOf(c, UpperChars) > 0 THEN <<LowerChars[IndexOf(c, UpperChars)]>> ELSE <<c>>
UpperChar(c) ==
  IF IndexOf(c, LowerChars) > 0 THEN <<UpperChars[IndexOf(c, LowerChars)]>>
  ELSE IF c = "ß" THEN <<"S", "S">>
  ELSE IF c = "ÿ" THEN <<"[U+0178]">>
  ELSE IF c = "µ" THEN <<"[U+039C]">>
  ELSE <<c>>
\* str.lower() and str.upper()
RECURSIVE Lower(_)
Lower(cs) == IF cs = <<>> THEN <<>> ELSE LowerChar(Head(cs)) \o Lower(Tail(cs))
RECURSIVE Upper(_)
Upper(cs) == IF cs = <<>> THEN <<>> ELSE UpperChar(Head(cs)) \o Upper(Tail(cs))

\* Whether c is below U+0080.
AsciiSet == {AsciiChars[i] : i \in 1..Len(AsciiChars)} \cup {"\t", "\n", "\r"}
IsAscii(c) == c \in AsciiSet

\* The TLA+ string of a tuple of characters.
RECURSIVE Text(_)
Text(cs) == IF cs = <<>> THEN "" ELSE Head(cs) \o Text(Tail(cs))

\* The tuple of the characters of a TLA+ string.
Chars(s) == [i \in 1..Len(s) |-> SubSeq(s, i, i)]

\* "\n".join(parts)
RECURSIVE Join(_)
Join(parts) ==
  IF parts = <<>> THEN ""
  ELSE IF Len(parts) = 1 THEN parts[1]
  ELSE parts[1] \o "\n" \o Join(Tail(parts))

\* c * n
RECURSIVE Rep(_, _)
Rep(c, n) == IF n = 0 THEN "" ELSE c \o Rep(c, n - 1)

IsDigit(c) == IndexOf(c, DigitChars) > 0
DigitVal(c) == IndexOf(c, DigitChars) - 1

\* The decimal digits of a natural number, without padding.
RECURSIVE DecChars(_)
DecChars(n) == IF n < 10 THEN <<DigitChars[n + 1]>>
               ELSE DecChars(n \div 10) \o <<DigitChars[(n % 10) + 1]>>

\* Two digits, zero padded: %m, %d, %H, %M, %S.
Pad2(n) == <<DigitChars[(n \div 10) + 1], DigitChars[(n % 10) + 1]>>

\* ---------------------------------------------------------- Python values
Absent == [t |-> "absent"]
PyNone == [t |-> "null"]
PyStr(cs) == [t |-> "str", s |-> cs]
PyList(xs) == [t |-> "list", items |-> xs]

\* Every key the program looks up, in the order the response carries them.
KeyOrder == <<"conversations", "data", "id", "sessionId", "createdAt", "updatedAt",
              "source", "userId", "messages", "transcript", "role", "sender",
              "content", "message", "text", "timestamp", "feedback">>
Keys == {KeyOrder[i] : i \in 1..Len(KeyOrder)}

EmptyDict == [t |-> "dict", d |-> [k \in Keys |-> Absent]]
\* dict `v` with key k set to x.
With(v, k, x) == [v EXCEPT !.d[k] = x]
\* dict `v` without key k.
Without(v, k) == [v EXCEPT !.d[k] = Absent]

IsDict(v) == v.t = "dict"
IsList(v) == v.t = "list"
IsStr(v) == v.t = "str"
\* k in v
Has(v, k) == v.d[k].t # "absent"
\* v.get(k, default)
Get(v, k, default) == IF Has(v, k) THEN v.d[k] ELSE default
\* The keys of dict v, in order.
KeysOf(v) == SelectSeq(KeyOrder, LAMBDA k : Has(v, k))

\* bool(v)
Truthy(v) ==
  CASE v.t = "null" -> FALSE
    [] v.t = "str"  -> v.s # <<>>
    [] v.t = "list" -> v.items # <<>>
    [] v.t = "dict" -> KeysOf(v) # <<>>

\* len(v), for the values that have one.
PyLen(v) ==
  CASE v.t = "str"  -> Len(v.s)
    [] v.t = "list" -> Len(v.items)
    [] v.t = "dict" -> Len(KeysOf(v))

\* The values a for loop over v yields.
Iterate(v) ==
  CASE v.t = "list" -> v.items
    [] v.t = "str"  -> [i \in 1..Len(v.s) |-> PyStr(<<v.s[i]>>)]
    [] v.t = "dict" -> [i \in 1..Len(KeysOf(v)) |-> PyStr(Chars(KeysOf(v)[i]))]

\* type(v).__name__
TypeName(v) ==
  CASE v.t = "null" -> "NoneType"
    [] v.t = "str"  -> "str"
    [] v.t = "list" -> "list"
    [] v.t = "dict" -> "dict"

\* str(e) of the AttributeError that v.attr raises.
NoAttribute(v, attr) ==
  "'" \o TypeName(v) \o "' object has no attribute '" \o attr \o "'"

\* The quote repr puts around a str: a double quote when the str holds a
\* single quote and no double quote, else a single quote.
ReprQuote(cs) ==
  IF (\E i \in 1..Len(cs) : cs[i] = "'") /\ ~(\E i \in 1..Len(cs) : cs[i] = "\"")
  THEN "\"" ELSE "'"

\* One character inside repr's quotes: the backslash, the quote and the
\* characters that are not printable (of U+00A0..U+00FF: U+00A0, U+00AD) are escaped.
ReprChar(c, quote) ==
  CASE c = "\\" -> "\\\\"
    [] c = quote -> "\\" \o quote
    [] c = "\n" -> "\\n"
    [] c = "\t" -> "\\t"
    [] c = "\r" -> "\\r"
    [] c = Latin1Chars[1] -> "\\xa0"
    [] c = Latin1Chars[14] -> "\\xad"
    [] OTHER -> c

RECURSIVE ReprChars(_, _)
ReprChars(cs, quote) ==
  IF cs = <<>> THEN "" ELSE ReprChar(Head(cs), quote) \o ReprChars(Tail(cs), quote)

\* repr(v): a str between quotes, None, a list and a dict with their items'
\* reprs.
RECURSIVE Repr(_)
RECURSIVE ReprItems(_)
RECURSIVE ReprPairs(_, _)
Repr(v) ==
  CASE v.t = "null" -> "None"
    [] v.t = "str"  -> ReprQuote(v.s) \o ReprChars(v.s, ReprQuote(v.s)) \o ReprQuote(v.s)
    [] v.t = "list" -> "[" \o ReprItems(v.items) \o "]"
    [] v.t = "dict" -> "{" \o ReprPairs(v, KeysOf(v)) \o "}"
ReprItems(items) ==
  IF items = <<>> THEN ""
  ELSE Repr(Head(items)) \o (IF Len(items) = 1 THEN "" ELSE ", " \o ReprItems(Tail(items)))
ReprPairs(v, ks) ==
  IF ks = <<>> THEN ""
  ELSE "'" \o Head(ks) \o "': " \o Repr(v.d[Head(ks)])
       \o (IF Len(ks) = 1 THEN "" ELSE ", " \o ReprPairs(v, Tail(ks)))

\* f"{v}", which is str(v): a str as it is, any other value as its repr.
Str(v) == IF v.t = "str" THEN Text(v.s) ELSE Repr(v)

\* ------------------------------------------------------- format_timestamp
\* timestamp.replace('Z', '+00:00'): every "Z", not only a trailing one.
RECURSIVE ReplaceZ(_)
ReplaceZ(cs) ==
  IF cs = <<>> THEN <<>>
  ELSE (IF Head(cs) = "Z" THEN <<"+","0","0",":","0","0">> ELSE <<Head(cs)>>)
       \o ReplaceZ(Tail(cs))

\* datetime.fromisoformat reads the UTF-8 encoding of the str, one position
\* per byte: a character below U+0080 is one byte, one of U+0080..U+07FF a
\* lead byte and a continuation byte.
Utf8Lead == "[lead]"
Utf8Cont == "[cont]"
RECURSIVE Utf8(_)
Utf8(cs) ==
  IF cs = <<>> THEN <<>>
  ELSE (IF IsAscii(Head(cs)) THEN <<Head(cs)>> ELSE <<Utf8Lead, Utf8Cont>>) \o Utf8(Tail(cs))

\* The byte at position i, counted from 0; "" is the NUL that ends the bytes.
Ch(bs, i) == IF i >= 0 /\ i < Len(bs) THEN bs[i + 1] ELSE ""

\* parse_digits: the number written by the n digits at position i, or -1.
RECURSIVE ParseDigits(_, _, _)
ParseDigits(bs, i, n) ==
  IF n = 0 THEN 0
  ELSE IF ~IsDigit(Ch(bs, i + n - 1)) THEN -1
  ELSE LET hi == ParseDigits(bs, i, n - 1)
       IN IF hi < 0 THEN -1 ELSE hi * 10 + DigitVal(Ch(bs, i + n - 1))

\* The first position from i on that holds no digit.
RECURSIVE DigitRunEnd(_, _)
DigitRunEnd(bs, i) == IF IsDigit(Ch(bs, i)) THEN DigitRunEnd(bs, i + 1) ELSE i

\* _find_isoformat_datetime_separator: the length of the date part, which is
\* YYYY-MM-DD (10), YYYYMMDD (8), YYYY-Www (8), YYYY-Www-D (10), YYYYWww (7)
\* or YYYYWwwD (8); -1 when there is none.
FindSeparator(bs) ==
  LET len == Len(bs)
      idx == DigitRunEnd(bs, 7)
  IN IF len = 7 THEN 7
     ELSE IF Ch(bs, 4) = "-"
     THEN IF Ch(bs, 5) = "W"
          THEN IF len < 8 THEN -1
               ELSE IF len > 8 /\ Ch(bs, 8) = "-"
               THEN IF len = 9 THEN -1
                    ELSE IF len > 10 /\ IsDigit(Ch(bs, 10)) THEN 8
                    ELSE 10
               ELSE 8
          ELSE 10
     ELSE IF Ch(bs, 4) = "W"
     THEN IF idx < 9 THEN idx
          ELSE IF idx % 2 = 0 THEN 7 ELSE 8
     ELSE 8

IsLeap(y) == (y % 4 = 0) /\ ((y % 100 # 0) \/ (y % 400 = 0))
DaysInMonth(y, m) ==
  IF m = 2 THEN (IF IsLeap(y) THEN 29 ELSE 28)
  ELSE IF m \in {4, 6, 9, 11} THEN 30 ELSE 31
\* The days of year y before month m.
RECURSIVE DaysBeforeMonth(_, _)
DaysBeforeMonth(y, m) ==
  IF m = 1 THEN 0 ELSE DaysBeforeMonth(y, m - 1) + DaysInMonth(y, m - 1)
\* The days before January 1st of year y (y >= 1).
DaysBeforeYear(y) ==
  (y - 1) * 365 + ((y - 1) \div 4) - ((y - 1) \div 100) + ((y - 1) \div 400)
\* The ordinal of a date: 0001-01-01 is day 1.
YmdToOrd(y, m, d) == DaysBeforeYear(y) + DaysBeforeMonth(y, m) + d
\* 0 for a Monday .. 6 for a Sunday.
Weekday(y, m, d) == (YmdToOrd(y, m, d) + 6) % 7
\* The ordinal of the Monday that starts ISO week 1 of year y.
IsoWeek1Monday(y) ==
  LET first_day == YmdToOrd(y, 1, 1)
      first_weekday == (first_day + 6) % 7
  IN first_day - first_weekday + (IF first_weekday > 3 THEN 7 ELSE 0)

NoDate == [ok |-> FALSE, year |-> 0, month |-> 0, day |-> 0]
Date(y, m, d) == [ok |-> TRUE, year |-> y, month |-> m, day |-> d]

\* The date of an ordinal that lies in year y - 1, y or y + 1.
OrdToYmd(ord, y) ==
  LET yy == IF ord <= DaysBeforeYear(y) THEN y - 1
            ELSE IF ord > DaysBeforeYear(y + 1) THEN y + 1
            ELSE y
      n == ord - DaysBeforeYear(yy)
      mm == CHOOSE m \in 1..12 :
              DaysBeforeMonth(yy, m) < n /\ n <= DaysBeforeMonth(yy, m) + DaysInMonth(yy, m)
  IN Date(yy, mm, n - DaysBeforeMonth(yy, mm))

\* iso_to_ymd: the date of day `day` of ISO week `week` of year y.  Week 53
\* exists in the years that start on a Thursday, and in the leap years that
\* start on a Wednesday.
IsoToYmd(y, week, day) ==
  LET first_weekday == Weekday(y, 1, 1)
      has53 == first_weekday = 3 \/ (first_weekday = 2 /\ IsLeap(y))
      ord == IsoWeek1Monday(y) + (week - 1) * 7 + day - 1
  IN IF y < 1 \/ y > 9999 THEN NoDate
     ELSE IF week <= 0 \/ week > 53 \/ (week = 53 /\ ~has53) THEN NoDate
     ELSE IF day <= 0 \/ day >= 8 THEN NoDate
     ELSE IF ord < 1 THEN NoDate
     ELSE OrdToYmd(ord, y)

\* parse_isoformat_date on the first len bytes.  The fields are not range
\* checked here.
ParseIsoformatDate(bs, len) ==
  LET year == ParseDigits(bs, 0, 4)
      uses_separator == Ch(bs, 4) = "-"
      p == IF uses_separator THEN 5 ELSE 4
      iso_week == ParseDigits(bs, p + 1, 2)
      q == p + 3
      iso_day == ParseDigits(bs, IF uses_separator THEN q + 1 ELSE q, 1)
      month == ParseDigits(bs, p, 2)
      r == p + 2
      day == ParseDigits(bs, IF uses_separator THEN r + 1 ELSE r, 2)
  IN IF year < 0 THEN NoDate
     ELSE IF Ch(bs, p) = "W"
     THEN IF iso_week < 0 THEN NoDate
          ELSE IF q < len /\ uses_separator /\ Ch(bs, q) # "-" THEN NoDate
          ELSE IF q < len /\ iso_day < 0 THEN NoDate
          ELSE IsoToYmd(year, iso_week, IF q < len THEN iso_day ELSE 1)
     ELSE IF month < 0 THEN NoDate
     ELSE IF uses_separator /\ Ch(bs, r) # "-" THEN NoDate
     ELSE IF day < 0 THEN NoDate
     ELSE Date(year, month, day)

\* The result of parse_hh_mm_ss_ff: rv is 0 when the component ends the bytes,
\* 1 when something follows it, below 0 when it is malformed.
Hms(rv, vals) == [rv |-> rv, hour |-> vals[1], minute |-> vals[2], second |-> vals[3]]

\* The fraction after the seconds: up to six digits are read, further digits
\* are skipped.
ParseFraction(bs, end, p, vals) ==
  LET to_parse == IF end - p >= 6 THEN 6 ELSE end - p
  IN IF ParseDigits(bs, p, to_parse) < 0 THEN Hms(-3, vals)
     ELSE Hms(IF Ch(bs, DigitRunEnd(bs, p + to_parse)) # "" THEN 1 ELSE 0, vals)

\* Pass i (0, 1, 2) of the loop of parse_hh_mm_ss_ff over HH, MM and SS, from
\* position p of a component that ends before position end.
RECURSIVE ParseHhMmSs(_, _, _, _, _, _)
ParseHhMmSs(bs, end, i, p, has_separator, vals) ==
  LET v == ParseDigits(bs, p, 2)
      c == Ch(bs, p + 2)
      q == p + 3
      sep == IF i = 0 THEN c = ":" ELSE has_separator
      vals2 == [vals EXCEPT ![i + 1] = v]
      \* where the next component starts: after the character read, or on
      \* it (--p) when there are no separators
      next == IF (sep /\ c = ":") \/ c \in {".", ","} THEN q ELSE q - 1
  IN IF v < 0 THEN Hms(-3, vals)
     ELSE IF q >= end THEN Hms(IF c # "" THEN 1 ELSE 0, vals2)
     ELSE IF sep /\ c \notin {":", ".", ","} THEN Hms(-4, vals)
     ELSE IF i = 2 \/ c \in {".", ","} THEN ParseFraction(bs, end, next, vals2)
     ELSE ParseHhMmSs(bs, end, i + 1, next, sep, vals2)

\* parse_hh_mm_ss_ff: HH[:MM[:SS[.f+]]] or HH[MM[SS[.f+]]] at p.
ParseHhMmSsFf(bs, p, end) == ParseHhMmSs(bs, end, 0, p, TRUE, <<0, 0, 0>>)

\* The position of the first "Z", "+" or "-" from p on, else the length.
RECURSIVE TzinfoPos(_, _)
TzinfoPos(bs, p) ==
  IF p >= Len(bs) THEN Len(bs)
  ELSE IF bs[p + 1] \in {"Z", "+", "-"} THEN p
  ELSE TzinfoPos(bs, p + 1)

NoTime == [ok |-> FALSE, hour |-> 0, minute |-> 0, second |-> 0, tzoffset |-> 0]
Time(t, tzoffset) ==
  [ok |-> TRUE, hour |-> t.hour, minute |-> t.minute, second |-> t.second, tzoffset |-> tzoffset]

\* The end of parse_isoformat_time: t is the time read before tzinfo_pos, tz
\* the offset read after it.
TimeAndOffset(bs, tzinfo_pos, t, tz) ==
  IF t.rv < 0 THEN NoTime
  ELSE IF tzinfo_pos = Len(bs) THEN (IF t.rv = 1 THEN NoTime ELSE Time(t, 0))
  ELSE IF Ch(bs, tzinfo_pos) = "Z"
  THEN (IF Ch(bs, tzinfo_pos + 1) # "" THEN NoTime ELSE Time(t, 0))
  ELSE IF tz.rv # 0 THEN NoTime
  ELSE Time(t, tz.hour * 3600 + tz.minute * 60 + tz.second)

\* parse_isoformat_time at p: the time, then nothing, "Z", or a sign and an
\* offset of the same layouts; tzoffset is the offset in seconds, sign left out.
ParseIsoformatTime(bs, p) ==
  LET tzinfo_pos == TzinfoPos(bs, p)
  IN TimeAndOffset(bs, tzinfo_pos, ParseHhMmSsFf(bs, p, tzinfo_pos),
                   ParseHhMmSsFf(bs, tzinfo_pos + 1, Len(bs)))

NoDatetime ==
  [ok |-> FALSE, year |-> 0, month |-> 0, day |-> 0, hour |-> 0, minute |-> 0, second |-> 0]

\* The range checks of the datetime and timezone constructors on the date d
\* and the time t that were read.
Datetime(d, t) ==
  IF ~d.ok \/ ~t.ok THEN NoDatetime
  ELSE IF d.year < 1 \/ d.year > 9999 \/ d.month < 1 \/ d.month > 12 THEN NoDatetime
  ELSE IF d.day < 1 \/ d.day > DaysInMonth(d.year, d.month) THEN NoDatetime
  ELSE IF t.hour > 23 \/ t.minute > 59 \/ t.second > 59 THEN NoDatetime
  ELSE IF t.tzoffset >= 24 * 3600 THEN NoDatetime
  ELSE [ok |-> TRUE, year |-> d.year, month |-> d.month, day |-> d.day,
        hour |-> t.hour, minute |-> t.minute, second |-> t.second]

\* datetime.fromisoformat (Python 3.11): the date part, one separator
\* character of any kind, the time part; then the range checks of the
\* datetime and timezone constructors.
FromIsoformat(cs) ==
  LET bs == Utf8(cs)
      len == Len(bs)
      separator_location == FindSeparator(bs)
      p == IF Ch(bs, separator_location) = Utf8Lead
           THEN separator_location + 2 ELSE separator_location + 1
  IN IF len < 7 \/ separator_location < 0 THEN NoDatetime
     ELSE Datetime(ParseIsoformatDate(bs, separator_location),
                   IF len > separator_location THEN ParseIsoformatTime(bs, p)
                   ELSE Time(NoTime, 0))

\* Whether datetime.fromisoformat accepts the str.
ParsesIso(cs) == FromIsoformat(cs).ok

\* dt.strftime('%Y-%m-%d %H:%M:%S UTC').  The C library's %Y prints the year
\* in decimal without padding: year 999 gives "999".  The offset and the
\* fraction of the second are not printed.
Strftime(dt) ==
  DecChars(dt.year) \o <<"-">> \o Pad2(dt.month) \o <<"-">> \o Pad2(dt.day)
  \o <<" ">> \o Pad2(dt.hour) \o <<":">> \o Pad2(dt.minute) \o <<":">> \o Pad2(dt.second)
  \o <<" ","U","T","C">>

\* Lines 10-11 once fromisoformat has run: ValueError when it rejected the
\* string, else the formatted datetime dt.
StrftimeOrRaise(timestamp, dt) ==
  IF ~dt.ok THEN [exc |-> "ValueError", val |-> timestamp]
  ELSE [exc |-> "none", val |-> PyStr(Strftime(dt))]

\* The try block of format_timestamp: the value it returns, or the exception
\* it raises (a list has no replace; replace of a dict or of None likewise;
\* fromisoformat rejects the string) beside the argument.
TryFormatTimestamp(timestamp) ==
  IF ~IsStr(timestamp) THEN [exc |-> "AttributeError", val |-> timestamp]
  ELSE StrftimeOrRaise(timestamp, FromIsoformat(ReplaceZ(timestamp.s)))

\* format_timestamp: a bare except returns the argument whatever was raised,
\* which is the val of the try block when it raised.
format_timestamp(timestamp) == [exc |-> "none", val |-> TryFormatTimestamp(timestamp).val]

\* ----------------------------------------------------- format_conversation
sNA == <<"N","/","A">>
sUnknown == <<"u","n","k","n","o","w","n">>
sUser == <<"u","s","e","r">>
sHuman == <<"h","u","m","a","n">>
sAssistant == <<"a","s","s","i","s","t","a","n","t">>
sBot == <<"b","o","t">>
sAi == <<"a","i">>
sAgent == <<"a","g","e","n","t">>

\* message.get('role', message.get('sender', 'unknown'))
RoleValue(message) == Get(message, "role", Get(message, "sender", PyStr(sUnknown)))

\* The speaker label of a lower-cased role.
Speaker(role) ==
  IF role \in {sUser, sHuman} THEN "USER"
  ELSE IF role \in {sAssistant, sBot, sAi, sAgent} THEN "BOT"
  ELSE Text(Upper(role))

\* message.get('content', message.get('message', message.get('text', '')))
Content(message) ==
  Get(message, "content", Get(message, "message", Get(message, "text", PyStr(<<>>))))

\* The bracketed timestamp after the speaker: createdAt, else timestamp, else "".
TimestampSuffix(message) ==
  IF Has(message, "createdAt") \/ Has(message, "timestamp")
  THEN " [" \o Str(format_timestamp(
                     message.d[IF Has(message, "createdAt") THEN "createdAt" ELSE "timestamp"]).val)
            \o "]"
  ELSE ""

\* The first line of a message's entry.
MessageHeader(message) ==
  "\n[" \o Speaker(Lower(RoleValue(message).s)) \o "]" \o TimestampSuffix(message)

\* One pass of the loop over the messages: the lines it appends, or the
\* exception it raises (a message that is no dict has no get; a role that is
\* no str has no lower).
MessageLines(message) ==
  IF ~IsDict(message)
  THEN [exc |-> "AttributeError", msg |-> NoAttribute(message, "get"), lines |-> <<>>]
  ELSE IF ~IsStr(RoleValue(message))
  THEN [exc |-> "AttributeError", msg |-> NoAttribute(RoleValue(message), "lower"), lines |-> <<>>]
  ELSE [exc |-> "none", msg |-> "",
        lines |-> <<MessageHeader(message), Str(Content(message))>>
                  \o (IF Has(message, "feedback")
                      THEN <<"  Feedback: " \o Str(message.d["feedback"])>>
                      ELSE <<>>)]

\* The loop over the messages, stopped by the first exception.
RECURSIVE TranscriptLines(_)
TranscriptLines(msgs) ==
  IF msgs = <<>> THEN [exc |-> "none", msg |-> "", lines |-> <<>>]
  ELSE LET first == MessageLines(Head(msgs))
       IN IF first.exc # "none" THEN first
          ELSE LET rest == TranscriptLines(Tail(msgs))
               IN [exc |-> rest.exc, msg |-> rest.msg, lines |-> first.lines \o rest.lines]

\* ResolveMessages without the fallback to transcript.
ResolveMessagesNoFallback(conversation) == Get(conversation, "messages", PyList(<<>>))

\* ResolveMessages with the fallback taken only when the key is missing:
\* conversation.get('messages', conversation.get('transcript', [])).
ResolveMessagesWhenAbsent(conversation) ==
  Get(conversation, "messages", Get(conversation, "transcript", PyList(<<>>)))

\* The message list format_conversation renders: messages, or transcript
\* when messages is missing or falsy.
ResolveMessages(conversation) ==
  LET messages == Get(conversation, "messages", PyList(<<>>))
  IN IF ~Truthy(messages) THEN Get(conversation, "transcript", PyList(<<>>)) ELSE messages

\* The header block of a conversation.
HeaderLines(conversation) ==
  <<Rep("=", RuleWidth),
    "CONVERSATION ID: " \o Str(Get(conversation, "id", PyStr(sNA))),
    "Session ID: " \o Str(Get(conversation, "sessionId", PyStr(sNA)))>>
  \o (IF Has(conversation, "createdAt")
      THEN <<"Started: " \o Str(format_timestamp(conversation.d["createdAt"]).val)>>
      ELSE <<>>)
  \o (IF Has(conversation, "updatedAt")
      THEN <<"Last Updated: " \o Str(format_timestamp(conversation.d["updatedAt"]).val)>>
      ELSE <<>>)
  \o (IF Has(conversation, "source")
      THEN <<"Source: " \o Str(conversation.d["source"])>> ELSE <<>>)
  \o (IF Has(conversation, "userId")
      THEN <<"User ID: " \o Str(conversation.d["userId"])>> ELSE <<>>)
  \o <<Rep("=", RuleWidth), "">>

\* The lines of a conversation from its header block and the outcome `body`
\* of the loop over its messages (has_messages: `if messages:`, line 46).
Block(header, has_messages, body) ==
  IF has_messages /\ body.exc # "none" THEN body
  ELSE [exc |-> "none", msg |-> "",
        lines |-> header
                  \o (IF has_messages
                      THEN <<"TRANSCRIPT:", Rep("-", RuleWidth)>>
                           \o body.lines
                           \o <<Rep("-", RuleWidth), "", "">>
                      ELSE <<"No transcript available.", "", "">>)]

\* format_conversation: the list `lines` at the return, or the exception raised
\* (a conversation that is no dict has no get) with its str(e).  The function
\* returns "\n".join(lines).
format_conversation(conversation) ==
  IF ~IsDict(conversation)
  THEN [exc |-> "AttributeError", msg |-> NoAttribute(conversation, "get"), lines |-> <<>>]
  ELSE LET messages == ResolveMessages(conversation)
       IN Block(HeaderLines(conversation), Truthy(messages), TranscriptLines(Iterate(messages)))

\* ------------------------------------------------------------- inputs
\* The strings of the response bodies are tuples of characters.  They hold
\* characters below U+0080 only: the model checker does not keep a character
\* above that intact in a state it has stored, and the operators above are
\* defined on the characters up to U+00FF all the same.

\* Timestamps: with a trailing Z, without, a date, with an offset, a year
\* below 1000, a leap day, a fraction of a second, no seconds, the basic
\* format, a week date, an offset without colon, and strings fromisoformat
\* rejects.
TimestampStrs ==
  {Chars("2025-11-04T10:00:00Z"), Chars("2025-11-04T10:00:00"),
   Chars("2025-11-04"), Chars("2025-11-04 10:00:00+05:30"),
   Chars("0999-01-02T03:04:05"), Chars("2024-02-29T23:59:59"),
   Chars("2025-11-04T10:00:00.123Z"), Chars("2025-11-04T10:00Z"),
   Chars("20251104T100000"), Chars("2025-W45-2"),
   Chars("2025-11-04T10:00:00+0530"), Chars("2025-13-01T00:00:00"),
   Chars("2025-02-29T00:00:00"), Chars("2025-11-04T24:00:00"),
   Chars("2025-11-04T10:00:00z"), Chars("2025-11-04Z10:00:00"),
   Chars("not a time"), <<>>}

\* The dict with the keys of record f (a value Absent leaves the key out).
Obj(f) == [t |-> "dict", d |-> [k \in Keys |-> IF k \in DOMAIN f THEN f[k] ELSE Absent]]

\* All tuples over S of length lo..hi.
SeqsOf(S, lo, hi) == UNION {[1..n -> S] : n \in lo..hi}

RoleOpts ==
  {Absent, PyNone, PyList(<<>>)}
  \cup {PyStr(r) : r \in {Chars("user"), Chars("Human"), Chars("assistant"), Chars("BOT"), Chars("ai"), Chars("Agent"), Chars("moderator"), <<>>}}
SenderOpts == {Absent, PyStr(Chars("bot")), PyStr(Chars("Support"))}

\* Messages that differ in role and sender.
LabelMsgs ==
  {Obj([role |-> r, sender |-> s, content |-> PyStr(Chars("hi"))]) : r \in RoleOpts, s \in SenderOpts}
\* Messages that differ in the three content keys.
ContentMsgs ==
  {Obj([role |-> PyStr(Chars("user")), content |-> c, message |-> m, text |-> x]) :
     c \in {Absent, PyStr(Chars("hi")), PyNone}, m \in {Absent, PyStr(Chars("msg"))}, x \in {Absent, PyStr(Chars("txt"))}}
\* Messages that differ in the two timestamp keys.
TimeMsgs ==
  {Obj([role |-> PyStr(Chars("assistant")), content |-> PyStr(Chars("hello")), createdAt |-> a, timestamp |-> b]) :
     a \in {Absent, PyStr(Chars("2025-11-04T10:00:00Z")), PyStr(Chars("not a time")), PyNone},
     b \in {Absent, PyStr(Chars("2025-11-04T10:00:00")), PyStr(Chars("2025-13-01T00:00:00"))}}
FeedbackMsgs ==
  {Obj([role |-> PyStr(Chars("user")), content |-> PyStr(Chars("hi")), feedback |-> f]) : f \in {PyStr(Chars("good")), PyNone}}
\* A message whose content is a list and whose feedback is a dict.
mStructured ==
  Obj([role |-> PyStr(Chars("user")), content |-> PyList(<<PyStr(Chars("it's")), PyStr(Chars("a'b\"c\\d\te")), PyNone>>),
       feedback |-> Obj([id |-> PyStr(Chars("good")), text |-> PyList(<<>>)])])
\* Every message of the inputs; the last two are not dicts.
Msgs ==
  LabelMsgs \cup ContentMsgs \cup TimeMsgs \cup FeedbackMsgs \cup {mStructured, PyNone, PyStr(Chars("x"))}

mUserHi == Obj([role |-> PyStr(Chars("user")), content |-> PyStr(Chars("hi")), timestamp |-> PyStr(Chars("2025-11-04T10:00:00Z"))])
mBotHello == Obj([role |-> PyStr(Chars("assistant")), content |-> PyStr(Chars("hello"))])
mNullRole == Obj([role |-> PyNone, content |-> PyStr(Chars("hi"))])
mTranscript == Obj([sender |-> PyStr(Chars("Agent")), text |-> PyStr(Chars("from transcript"))])
\* The messages of the longer lists.
MsgsSmall == {mUserHi, mBotHello, mNullRole}

\* The values under "messages": missing, null, a str, and lists of 0..MaxMsgs.
MessagesOpts ==
  {Absent, PyNone, PyStr(Chars("x")), PyList(<<>>)}
  \cup {PyList(<<m>>) : m \in Msgs}
  \cup {PyList(ms) : ms \in SeqsOf(MsgsSmall, 2, MaxMsgs)}
TranscriptOpts == {Absent, PyList(<<>>), PyList(<<mTranscript>>)}

\* Conversations that differ in messages and transcript.
MsgConvs ==
  {Obj([id |-> PyStr(Chars("c1")), sessionId |-> PyStr(Chars("s1")), messages |-> m, transcript |-> tr]) :
     m \in MessagesOpts, tr \in TranscriptOpts}
\* Conversations that differ in the header fields.
HeaderConvs ==
  {Obj([id |-> i, sessionId |-> se, source |-> so, userId |-> u, messages |-> PyList(<<mBotHello>>)]) :
     i \in {Absent, PyStr(Chars("c1")), PyNone}, se \in {Absent, PyStr(Chars("s1"))},
     so \in {Absent, PyStr(Chars("Widget"))}, u \in {Absent, PyStr(Chars("u1"))}}
\* Conversations that differ in the two timestamps.
TimeConvs ==
  {Obj([id |-> PyStr(Chars("c1")), createdAt |-> a, updatedAt |-> b]) :
     a \in {Absent, PyNone} \cup {PyStr(x) : x \in TimestampStrs},
     b \in {Absent, PyStr(Chars("2025-11-04T10:00:00Z")), PyStr(Chars("not a time"))}}
\* A conversation whose header fields are a list, a dict and strs with
\* characters that repr and JSON escape.
cvStructured ==
  Obj([id |-> PyList(<<PyStr(Chars("x"))>>), sessionId |-> Obj([id |-> PyStr(Chars("s1"))]),
       source |-> PyStr(Chars("a'b\"c\\d\te")), userId |-> PyList(<<>>)])
\* Every conversation dict of the inputs; EmptyDict is {}.
Convs == MsgConvs \cup HeaderConvs \cup TimeConvs \cup {cvStructured, EmptyDict}

cvChat ==
  Obj([id |-> PyStr(Chars("c1")), sessionId |-> PyStr(Chars("s1")), messages |-> PyList(<<mUserHi, mBotHello>>)])
cvNoMessages == Obj([id |-> PyStr(Chars("c1")), sessionId |-> PyStr(Chars("s1"))])
\* The items of the longer lists; the last is not a dict.
ConvsSmall == {cvChat, cvNoMessages, PyNone}

\* The lists of conversations: 0..MaxConvs items.
ConvLists ==
  {<<>>} \cup {<<c>> : c \in Convs \cup {PyNone, PyStr(Chars("x"))}}
  \cup SeqsOf(ConvsSmall, 2, MaxConvs)

\* The parsed response bodies: a bare list, a list under "conversations" or
\* under "data", both keys, a key holding no list (null, a str, a dict, whose
\* keys the loop then takes for conversations), a bare conversation, and a
\* body that is neither a dict nor a list.
Bodies ==
  {PyList(l) : l \in ConvLists}
  \cup {Obj([conversations |-> PyList(l)]) : l \in ConvLists}
  \cup {Obj([data |-> PyList(l)]) : l \in ConvLists}
  \cup {Obj([conversations |-> x, data |-> y]) :
          x \in {PyList(<<>>), PyList(<<cvChat>>), PyNone},
          y \in {PyList(<<>>), PyList(<<cvNoMessages>>)}}
  \cup {Obj([conversations |-> PyNone]), Obj([data |-> PyNone]), Obj([conversations |-> PyStr(Chars("x"))])}
  \cup {Obj([conversations |-> cvNoMessages]), Obj([data |-> cvChat])}
  \cup {Obj([conversations |-> PyList(<<>>), source |-> PyStr(Chars("a'b\"c\\d\te"))])}
  \cup Convs
  \cup {PyNone, PyStr(Chars("oops")), PyStr(Chars("a'b\"c\\d\te"))}

\* ------------------------------------------------------------ json.dumps
\* One character of a str in JSON text (ensure_ascii): the double quote, the
\* backslash and the control characters are escaped, a character from U+00A0
\* to U+00FF is written \u00xx.
DumpChar(c) ==
  CASE c = "\"" -> "\\\""
    [] c = "\\" -> "\\\\"
    [] c = "\n" -> "\\n"
    [] c = "\r" -> "\\r"
    [] c = "\t" -> "\\t"
    [] IndexOf(c, Latin1Chars) > 0 ->
         LET code == IndexOf(c, Latin1Chars) + 159
         IN "\\u00" \o HexChars[(code \div 16) + 1] \o HexChars[(code % 16) + 1]
    [] OTHER -> c
RECURSIVE DumpChars(_)
DumpChars(cs) == IF cs = <<>> THEN "" ELSE DumpChar(Head(cs)) \o DumpChars(Tail(cs))

\* json.dumps(v, indent=2) at nesting depth `level`.
RECURSIVE Dumps(_, _)
RECURSIVE DumpItems(_, _)
RECURSIVE DumpPairs(_, _, _)
Dumps(v, level) ==
  CASE v.t = "null" -> "null"
    [] v.t = "str"  -> "\"" \o DumpChars(v.s) \o "\""
    [] v.t = "list" ->
         IF v.items = <<>> THEN "[]"
         ELSE "[\n" \o DumpItems(v.items, level + 1) \o "\n" \o Rep(" ", DumpIndent * level) \o "]"
    [] v.t = "dict" ->
         IF KeysOf(v) = <<>> THEN "{}"
         ELSE "{\n" \o DumpPairs(v, KeysOf(v), level + 1) \o "\n" \o Rep(" ", DumpIndent * level) \o "}"
DumpItems(items, level) ==
  Rep(" ", DumpIndent * level) \o Dumps(Head(items), level)
  \o (IF Len(items) = 1 THEN "" ELSE ",\n" \o DumpItems(Tail(items), level))
DumpPairs(v, ks, level) ==
  Rep(" ", DumpIndent * level) \o "\"" \o Head(ks) \o "\": " \o Dumps(v.d[Head(ks)], level)
  \o (IF Len(ks) = 1 THEN "" ELSE ",\n" \o DumpPairs(v, Tail(ks), level))

\* ------------------------------------------------------------ environment
aScript == <<"c","o","n","v","o",".","p","y">>
aOut == <<"o","u","t",".","t","x","t">>
aExtra == <<"e","x","t","r","a">>
\* The command lines: no argument, a file name, an empty argument, two arguments.
Argvs == {<<aScript>>, <<aScript, aOut>>, <<aScript, <<>>>>, <<aScript, aOut, aExtra>>}

\* `response` before requests.get has returned.
NoResponse == [status |-> 0, reason |-> PyNone, url |-> "", text |-> "", json |-> Absent]
\* url, and the URL requests makes of it and of querystring.
Url == "https://www.chatbase.co/api/v1/get-conversations"
UrlWithQuery ==
  Url \o "?chatbotId=pHo9w64NCxL9BwyyTbpXY&filteredSources=Widget+or+Iframe"
      \o "&startDate=2025-11-04&endDate=2025-11-04"
\* Replies with an error status; the reason phrase can be missing, and
\* response.url is the URL of the request, or the one a redirect led to.
ErrorReplies ==
  {[status |-> 401, reason |-> PyStr(Chars("Unauthorized")), url |-> UrlWithQuery,
    text |-> "Unauthorized", json |-> Absent],
   [status |-> 401, reason |-> PyNone, url |-> Url, text |-> "Unauthorized", json |-> Absent],
   [status |-> 500, reason |-> PyNone, url |-> Url, text |-> "", json |-> Absent],
   [status |-> 500, reason |-> PyStr(Chars("Internal Server Error")), url |-> UrlWithQuery,
    text |-> "<html>error</html>", json |-> Absent]}
\* Replies whose body is not JSON (json = Absent).
BadJsonReplies ==
  {[status |-> 200, reason |-> PyStr(Chars("OK")), url |-> UrlWithQuery,
    text |-> "<html>maintenance</html>", json |-> Absent],
   [status |-> 200, reason |-> PyStr(Chars("OK")), url |-> UrlWithQuery,
    text |-> "", json |-> Absent]}
\* Replies whose body is the JSON text of a body of Bodies.
GoodReplies ==
  {[status |-> 200, reason |-> PyStr(Chars("OK")), url |-> UrlWithQuery,
    text |-> Dumps(b, 0), json |-> b] : b \in Bodies}
Replies == ErrorReplies \cup BadJsonReplies \cup GoodReplies

\* An exception: the classes it is an instance of, the step that raised it,
\* str(e), and e.response.text when e carries a response.
NoExc == [classes |-> {}, at |-> "none", msg |-> "", response_text |-> <<>>]
Raise(classes, at, msg, response_text) ==
  [classes |-> classes \cup {"Exception"}, at |-> at, msg |-> msg, response_text |-> response_text]

\* What response.json() raises for a body that is not JSON: requests from
\* 2.27 on raises requests.exceptions.JSONDecodeError, which is both a
\* RequestException and a json.JSONDecodeError; before, json.JSONDecodeError.
JsonErrorClasses ==
  {{"RequestException", "JSONDecodeError", "ValueError"}, {"JSONDecodeError", "ValueError"}}

\* What print(s) writes.
PrintOut(s) == s \o "\n"

\* A file that does not exist.
NoFile == [exists |-> FALSE, text |-> ""]

\* ------------------------------------------------------------------ main
VARIABLES
  argv,           \* sys.argv
  output_file,    \* main's argument: None or a str
  pc,             \* the statement main is at
  response,       \* the reply of requests.get
  requests_made,  \* how many requests were issued
  data,           \* response.json()
  conversations,  \* the normalized conversation sequence
  idx,            \* the formatting loop's index (1-based)
  lines,          \* `lines` of the last format_conversation call that returned
  output_lines,   \* the chunks assembled so far
  output_text,    \* "\n".join(output_lines)
  stdout,         \* what was written to standard output, one entry per print
  file,           \* the output file
  exc,            \* the exception being handled
  handler,        \* the except clause that ran
  status          \* the exit status; -1 while running

vars == <<argv, output_file, pc, response, requests_made, data, conversations, idx,
          lines, output_lines, output_text, stdout, file, exc, handler, status>>

Init ==
  /\ argv \in Argvs
  /\ output_file = PyNone
  /\ pc = "__main__"
  /\ response = NoResponse
  /\ requests_made = 0
  /\ data = Absent
  /\ conversations = PyList(<<>>)
  /\ idx = 0
  /\ lines = <<>>
  /\ output_lines = <<>>
  /\ output_text = ""
  /\ stdout = <<>>
  /\ file = NoFile
  /\ exc = NoExc
  /\ handler = "none"
  /\ status = -1

\* sys.argv[1] if len(sys.argv) > 1 else None
ArgOutputFile(args) == IF Len(args) > 1 THEN PyStr(args[2]) ELSE PyNone

\* The __main__ block: main(output_file).
Main ==
  /\ pc = "__main__"
  /\ output_file' = ArgOutputFile(argv)
  /\ pc' = "get"
  /\ UNCHANGED <<argv, response, requests_made, data, conversations, idx, lines,
                 output_lines, output_text, stdout, file, exc, handler, status>>

\* requests.get: a reply, or a connection error.
RequestGet ==
  /\ pc = "get"
  /\ requests_made' = requests_made + 1
  /\ \/ \E r \in Replies : response' = r /\ exc' = exc /\ pc' = "raise_for_status"
     \/ /\ exc' = Raise({"RequestException"}, "get", "Connection refused", <<>>)
        /\ response' = response
        /\ pc' = "except"
  /\ UNCHANGED <<argv, output_file, data, conversations, idx, lines,
                 output_lines, output_text, stdout, file, handler, status>>

\* Whether raise_for_status raises: a 4xx or 5xx status.
IsErrorStatus(code) == code >= 400 /\ code < 600

\* str(e) of the HTTPError that raise_for_status raises for reply r.
HttpErrorMsg(r) ==
  Text(DecChars(r.status))
  \o (IF r.status < 500 THEN " Client Error: " ELSE " Server Error: ")
  \o Str(r.reason) \o " for url: " \o r.url

\* response.raise_for_status()
RaiseForStatus ==
  /\ pc = "raise_for_status"
  /\ IF IsErrorStatus(response.status)
     THEN /\ exc' = Raise({"RequestException"}, "raise_for_status", HttpErrorMsg(response),
                          <<response.text>>)
          /\ pc' = "except"
     ELSE /\ exc' = exc
          /\ pc' = "json"
  /\ UNCHANGED <<argv, output_file, response, requests_made, data, conversations, idx, lines,
                 output_lines, output_text, stdout, file, handler, status>>

\* data = response.json()
ParseJson ==
  /\ pc = "json"
  /\ IF response.json = Absent
     THEN /\ \E cl \in JsonErrorClasses :
               exc' = Raise(cl, "json", "Expecting value: line 1 column 1 (char 0)", <<>>)
          /\ data' = data
          /\ pc' = "except"
     ELSE /\ data' = response.json
          /\ exc' = exc
          /\ pc' = "normalize"
  /\ UNCHANGED <<argv, output_file, response, requests_made, conversations, idx, lines,
                 output_lines, output_text, stdout, file, handler, status>>

\* NormalizeBody with "data" looked up before "conversations".
NormalizeBodyDataFirst(body) ==
  IF IsDict(body)
  THEN IF Has(body, "data") THEN body.d["data"]
       ELSE IF Has(body, "conversations") THEN body.d["conversations"]
       ELSE PyList(<<body>>)
  ELSE IF IsList(body) THEN body
  ELSE PyList(<<>>)

\* The conversation sequence of a parsed body.
NormalizeBody(body) ==
  IF IsDict(body)
  THEN IF Has(body, "conversations") THEN body.d["conversations"]
       ELSE IF Has(body, "data") THEN body.d["data"]
       ELSE PyList(<<body>>)
  ELSE IF IsList(body) THEN body
  ELSE PyList(<<>>)

\* "Handle different response structures"
Normalize ==
  /\ pc = "normalize"
  /\ conversations' = NormalizeBody(data)
  /\ pc' = "branch"
  /\ UNCHANGED <<argv, output_file, response, requests_made, data, idx, lines,
                 output_lines, output_text, stdout, file, exc, handler, status>>

\* The banner of the whole output.
FoundHeader(n) ==
  "\n" \o Rep("=", RuleWidth) \o "\nFOUND " \o Text(DecChars(n)) \o " CONVERSATION(S)\n"
  \o Rep("=", RuleWidth) \o "\n"

\* The banner of conversation i of n.
ConvHeader(i, n) ==
  "\n" \o Rep("#", RuleWidth) \o "\nCONVERSATION #" \o Text(DecChars(i)) \o " of "
  \o Text(DecChars(n)) \o "\n" \o Rep("#", RuleWidth) \o "\n"

\* NotFoundLines without the dump of the body.
NotFoundLinesNoDump(body) ==
  <<"\nNo conversations found for the specified date range.",
    "\nRaw API Response:">>

\* The three chunks of the run that found no conversation.
NotFoundLines(body) ==
  <<"\nNo conversations found for the specified date range.",
    "\nRaw API Response:",
    Dumps(body, 0)>>

\* if conversations: the banner, and the loop starts.
Found ==
  /\ pc = "branch"
  /\ Truthy(conversations)
  /\ output_lines' = Append(output_lines, FoundHeader(PyLen(conversations)))
  /\ idx' = 1
  /\ pc' = "format"
  /\ UNCHANGED <<argv, output_file, response, requests_made, data, conversations, lines,
                 output_text, stdout, file, exc, handler, status>>

\* else: the notice and the dump of the parsed body.
NotFound ==
  /\ pc = "branch"
  /\ ~Truthy(conversations)
  /\ output_lines' = output_lines \o NotFoundLines(data)
  /\ pc' = "assemble"
  /\ UNCHANGED <<argv, output_file, response, requests_made, data, conversations, idx, lines,
                 output_text, stdout, file, exc, handler, status>>

\* FormatNext printing each block as soon as it is formatted.
FormatNextPrinting ==
  /\ pc = "format"
  /\ LET n == PyLen(conversations)
         conversation == Iterate(conversations)[idx]
         r == format_conversation(conversation)
     IN IF r.exc # "none"
        THEN /\ output_lines' = Append(output_lines, ConvHeader(idx, n))
             /\ exc' = Raise({r.exc}, "format", r.msg, <<>>)
             /\ pc' = "except"
             /\ UNCHANGED <<idx, lines, stdout>>
        ELSE /\ output_lines' = output_lines \o <<ConvHeader(idx, n), Join(r.lines)>>
             /\ stdout' = Append(stdout, PrintOut(Join(r.lines)))
             /\ lines' = r.lines
             /\ idx' = idx + 1
             /\ pc' = IF idx = n THEN "assemble" ELSE "format"
             /\ exc' = exc
  /\ UNCHANGED <<argv, output_file, response, requests_made, data, conversations,
                 output_text, file, handler, status>>

\* One pass of the loop over the conversations: the banner is appended, then
\* the block, unless format_conversation raises.
FormatNext ==
  /\ pc = "format"
  /\ LET n == PyLen(conversations)
         conversation == Iterate(conversations)[idx]
         r == format_conversation(conversation)
     IN IF r.exc # "none"
        THEN /\ output_lines' = Append(output_lines, ConvHeader(idx, n))
             /\ exc' = Raise({r.exc}, "format", r.msg, <<>>)
             /\ pc' = "except"
             /\ UNCHANGED <<idx, lines>>
        ELSE /\ output_lines' = output_lines \o <<ConvHeader(idx, n), Join(r.lines)>>
             /\ lines' = r.lines
             /\ idx' = idx + 1
             /\ pc' = IF idx = n THEN "assemble" ELSE "format"
             /\ exc' = exc
  /\ UNCHANGED <<argv, output_file, response, requests_made, data, conversations,
                 output_text, stdout, file, handler, status>>

\* output_text = "\n".join(output_lines); if output_file:
Assemble ==
  /\ pc = "assemble"
  /\ output_text' = Join(output_lines)
  /\ pc' = IF Truthy(output_file) THEN "open" ELSE "print"
  /\ UNCHANGED <<argv, output_file, response, requests_made, data, conversations, idx, lines,
                 output_lines, stdout, file, exc, handler, status>>

\* open(output_file, 'w'): the file is created or truncated, or OSError.
OpenFile ==
  /\ pc = "open"
  /\ \/ file' = [exists |-> TRUE, text |-> ""] /\ exc' = exc /\ pc' = "write"
     \/ /\ exc' = Raise({"OSError"}, "open",
                         "[Errno 13] Permission denied: " \o Repr(output_file), <<>>)
        /\ file' = file
        /\ pc' = "except"
  /\ UNCHANGED <<argv, output_file, response, requests_made, data, conversations, idx, lines,
                 output_lines, output_text, stdout, handler, status>>

\* WriteFile as f.writelines(output_lines): the chunks without the "\n" between.
WriteFileLines ==
  /\ pc = "write"
  /\ \/ /\ file' = [file EXCEPT !.text = Text(output_lines)]
        /\ exc' = exc
        /\ pc' = "confirm"
     \/ /\ exc' = Raise({"OSError"}, "write", "[Errno 28] No space left on device", <<>>)
        /\ file' = file
        /\ pc' = "except"
  /\ UNCHANGED <<argv, output_file, response, requests_made, data, conversations, idx, lines,
                 output_lines, output_text, stdout, handler, status>>

\* What the file holds after a write that stopped in the middle of `text`:
\* the first n characters and, when the write stopped inside the two bytes
\* of the next character, its lead byte.
Partial(text, n, cut) == SubSeq(text, 1, n) \o (IF cut THEN Utf8Lead ELSE "")

\* f.write(output_text) and the close at the end of the with block, which
\* flushes the buffered text: the text is in the file, or OSError with the
\* bytes the file system had room for, which can end anywhere in the text.
WriteFile ==
  /\ pc = "write"
  /\ \/ file' = [file EXCEPT !.text = output_text] /\ exc' = exc /\ pc' = "confirm"
     \/ /\ \E n \in 0..(Len(output_text) - 1) :
             \E cut \in {FALSE, ~IsAscii(SubSeq(output_text, n + 1, n + 1))} :
               file' = [file EXCEPT !.text = Partial(output_text, n, cut)]
        /\ exc' = Raise({"OSError"}, "write", "[Errno 28] No space left on device", <<>>)
        /\ pc' = "except"
  /\ UNCHANGED <<argv, output_file, response, requests_made, data, conversations, idx, lines,
                 output_lines, output_text, stdout, handler, status>>

\* The character U+2713 (a check mark), which a string of this module cannot hold.
CheckMark == "[U+2713]"

\* The confirmation line, and what stands before the check mark in it.
BeforeCheckMark == "\n"
Confirmation(name) ==
  BeforeCheckMark \o CheckMark \o " Formatted transcripts saved to: " \o Text(name.s)

\* The encodings of standard output that have no check mark: the codec's name
\* and its reason in the UnicodeEncodeError.
ConsoleCodecs ==
  {[name |-> "ascii", reason |-> "ordinal not in range(128)"],
   [name |-> "latin-1", reason |-> "ordinal not in range(256)"],
   [name |-> "charmap", reason |-> "character maps to <undefined>"]}

\* str(e) of the UnicodeEncodeError for the check mark of the confirmation.
CantEncode(codec) ==
  "'" \o codec.name \o "' codec can't encode character '\\u2713' in position "
  \o Text(DecChars(Len(BeforeCheckMark))) \o ": " \o codec.reason

\* print(confirmation), or UnicodeEncodeError from a console that cannot
\* encode the check mark, with nothing written.
PrintConfirmation ==
  /\ pc = "confirm"
  /\ \/ stdout' = Append(stdout, PrintOut(Confirmation(output_file))) /\ exc' = exc /\ pc' = "return"
     \/ /\ \E codec \in ConsoleCodecs :
             exc' = Raise({"UnicodeEncodeError", "ValueError"}, "confirm", CantEncode(codec), <<>>)
        /\ stdout' = stdout
        /\ pc' = "except"
  /\ UNCHANGED <<argv, output_file, response, requests_made, data, conversations, idx, lines,
                 output_lines, output_text, file, handler, status>>

\* print(output_text).  The text holds characters below U+0080 only, as the
\* inputs do, and every console encodes those: the print does not raise.
PrintText ==
  /\ pc = "print"
  /\ stdout' = Append(stdout, PrintOut(output_text))
  /\ pc' = "return"
  /\ UNCHANGED <<argv, output_file, response, requests_made, data, conversations, idx, lines,
                 output_lines, output_text, file, exc, handler, status>>

\* main returns and the interpreter exits with status 0.
Return ==
  /\ pc = "return"
  /\ status' = 0
  /\ pc' = "done"
  /\ UNCHANGED <<argv, output_file, response, requests_made, data, conversations, idx, lines,
                 output_lines, output_text, stdout, file, exc, handler>>

\* The except clause that handles e: the first, in the order written, whose
\* class e is an instance of.
HandlerFor(e) ==
  IF "RequestException" \in e.classes THEN "RequestException"
  ELSE IF "JSONDecodeError" \in e.classes THEN "JSONDecodeError"
  ELSE "Exception"

\* except requests.exceptions.RequestException
ExceptRequest ==
  /\ pc = "except"
  /\ HandlerFor(exc) = "RequestException"
  /\ stdout' = Append(stdout,
        PrintOut("Error fetching conversations: " \o exc.msg
                 \o (IF exc.response_text # <<>>
                     THEN "\nResponse: " \o exc.response_text[1] ELSE "")))
  /\ handler' = "RequestException"
  /\ status' = 1
  /\ pc' = "done"
  /\ UNCHANGED <<argv, output_file, response, requests_made, data, conversations, idx, lines,
                 output_lines, output_text, file, exc>>

\* except json.JSONDecodeError
ExceptJSON ==
  /\ pc = "except"
  /\ HandlerFor(exc) = "JSONDecodeError"
  /\ stdout' = stdout
        \o <<PrintOut("Error parsing JSON response: " \o exc.msg)>>
        \o (IF response # NoResponse
            THEN <<PrintOut("Raw response: " \o response.text)>> ELSE <<>>)
  /\ handler' = "JSONDecodeError"
  /\ status' = 1
  /\ pc' = "done"
  /\ UNCHANGED <<argv, output_file, response, requests_made, data, conversations, idx, lines,
                 output_lines, output_text, file, exc>>

\* ExceptOther without sys.exit(1): main returns after the message.
ExceptOtherNoExit ==
  /\ pc = "except"
  /\ HandlerFor(exc) = "Exception"
  /\ stdout' = Append(stdout, PrintOut("Unexpected error: " \o exc.msg))
  /\ handler' = "Exception"
  /\ status' = 0
  /\ pc' = "done"
  /\ UNCHANGED <<argv, output_file, response, requests_made, data, conversations, idx, lines,
                 output_lines, output_text, file, exc>>

\* except Exception (the traceback goes to standard error)
ExceptOther ==
  /\ pc = "except"
  /\ HandlerFor(exc) = "Exception"
  /\ stdout' = Append(stdout, PrintOut("Unexpected error: " \o exc.msg))
  /\ handler' = "Exception"
  /\ status' = 1
  /\ pc' = "done"
  /\ UNCHANGED <<argv, output_file, response, requests_made, data, conversations, idx, lines,
                 output_lines, output_text, file, exc>>

Next ==
  \/ Main
  \/ RequestGet
  \/ RaiseForStatus
  \/ ParseJson
  \/ Normalize
  \/ Found
  \/ NotFound
  \/ FormatNext
  \/ Assemble
  \/ OpenFile
  \/ WriteFile
  \/ PrintConfirmation
  \/ PrintText
  \/ Return
  \/ ExceptRequest
  \/ ExceptJSON
  \/ ExceptOther

Spec == Init /\ [][Next]_vars

\* ---------------------------------------------------------------- claims
Range(seq) == {seq[i] : i \in 1..Len(seq)}

\* The chunks main assembles for a parsed body when nothing raises.
RECURSIVE ConvChunks(_, _, _)
ConvChunks(convs, i, n) ==
  IF i > n THEN <<>>
  ELSE <<ConvHeader(i, n), Join(format_conversation(convs[i]).lines)>> \o ConvChunks(convs, i + 1, n)
OutputLinesOf(body) ==
  LET cv == NormalizeBody(body)
  IN IF Truthy(cv)
     THEN <<FoundHeader(PyLen(cv))>> \o ConvChunks(Iterate(cv), 1, PyLen(cv))
     ELSE NotFoundLines(body)

\* The body was parsed and the conversation sequence has just been chosen.
Normalized == pc = "branch"
\* The run ended without an exception.
Succeeded == pc = "done" /\ exc = NoExc
\* format_conversation has just returned for LastFormatted, with `lines`.
SomeFormatted == idx >= 2 /\ pc \in {"format", "assemble"}
LastFormatted == Iterate(conversations)[idx - 1]
\* The statements before the output step.
BeforeOutput ==
  {"__main__", "get", "raise_for_status", "json", "normalize", "branch", "format", "assemble"}

\* C1: the conversation sequence is the value under "conversations" when the
\* body is a mapping with that key (even with "data" present, even when the
\* value is empty), else the value under "data", else the one-element
\* sequence holding the mapping; a body that is a sequence is used directly.
\* So {"conversations": L}, {"data": L} and L all give L.
C1_NormalizationPrecedence ==
  Normalized =>
    /\ IsDict(data) /\ Has(data, "conversations") => conversations = data.d["conversations"]
    /\ IsDict(data) /\ ~Has(data, "conversations") /\ Has(data, "data")
         => conversations = data.d["data"]
    /\ IsDict(data) /\ ~Has(data, "conversations") /\ ~Has(data, "data")
         => conversations = PyList(<<data>>)
    /\ IsList(data) => conversations = data
    /\ \A l \in ConvLists :
         data \in {Obj([conversations |-> PyList(l)]), Obj([data |-> PyList(l)]), PyList(l)}
           => conversations = PyList(l)

\* C1 witness: both keys present, "conversations" empty, and it is the one chosen.
C1_Witness ==
  /\ Normalized
  /\ data = Obj([conversations |-> PyList(<<>>), data |-> PyList(<<cvNoMessages>>)])
  /\ conversations = PyList(<<>>)

\* C2 as stated: when the parsed body is {}, the run takes the
\* zero-conversation path: the output is the "No conversations found" notice
\* and the dump of {}, and the exit status is 0.
C2_EmptyMappingTakesNotFoundPath ==
  Succeeded /\ data = EmptyDict =>
    /\ output_lines = <<"\nNo conversations found for the specified date range.",
                        "\nRaw API Response:", "{}">>
    /\ status = 0

\* C2 amended: a body that yields an empty conversation sequence takes the
\* zero-conversation path (the notice, then the dump of the body, exit 0):
\* {"conversations": []} does.  The empty mapping {} has neither key and is
\* one conversation: the "FOUND 1 CONVERSATION(S)" banner and one section.
C2_ZeroConversationPath ==
  Succeeded =>
    /\ ~Truthy(conversations) =>
         /\ output_lines = <<"\nNo conversations found for the specified date range.",
                             "\nRaw API Response:", Dumps(data, 0)>>
         /\ status = 0
    /\ data = Obj([conversations |-> PyList(<<>>)]) =>
         /\ ~Truthy(conversations)
         /\ output_lines[3] = "{\n  \"conversations\": []\n}"
    /\ data = PyList(<<>>) => ~Truthy(conversations) /\ output_lines[3] = "[]"
    /\ data = EmptyDict =>
         /\ Len(output_lines) = 3
         /\ output_lines[1] = FoundHeader(1)
         /\ output_lines[2] = ConvHeader(1, 1)
         /\ "No transcript available." \in Range(lines)
         /\ status = 0

\* C2 witness: the run for {"conversations": []} ended on the zero-conversation path.
C2_Witness ==
  /\ Succeeded
  /\ data = Obj([conversations |-> PyList(<<>>)])
  /\ Len(output_lines) = 3

\* C3: a run ends with status 0 or 1; 0 exactly when no step from the request
\* to the output raised (the zero-conversation run included), 1 for every
\* exception, and every exception is handled.
C3_ExitStatus ==
  /\ pc # "done" => status = -1
  /\ pc = "done" => status \in {0, 1} /\ (status = 0 <=> exc = NoExc)
  /\ pc = "except" => exc # NoExc /\ ENABLED (ExceptRequest \/ ExceptJSON \/ ExceptOther)
  /\ exc # NoExc => pc \in {"except", "done"}
  /\ status = 0 =>
       /\ requests_made = 1 /\ data # Absent
       /\ output_text = Join(output_lines)
       /\ \/ stdout = <<PrintOut(output_text)>>
          \/ file.exists /\ file.text = output_text

\* C3 witness: a conversation that is no dict made the formatting raise, status 1.
C3_Witness ==
  /\ pc = "done" /\ status = 1 /\ exc.at = "format"
  /\ handler = "Exception"

\* C4 as stated: a 2xx reply whose body is not JSON is handled by the
\* JSON-decode handler, whatever response.json() raised for it: the run
\* prints "Error parsing JSON response" and the raw text, and exits with 1.
C4_JsonFailureReachesJsonHandler ==
  pc = "done" /\ exc.at = "json" =>
    /\ handler = "JSONDecodeError"
    /\ stdout = <<PrintOut("Error parsing JSON response: " \o exc.msg),
                  PrintOut("Raw response: " \o response.text)>>
    /\ status = 1

\* C5 as stated: in a run that ends with status 1, whatever step failed, no
\* transcript text was printed and none is in the output file.
C5_NoTranscriptOutputOnFailure ==
  status = 1 =>
    /\ file.text = ""
    /\ PrintOut(output_text) \notin Range(stdout)

\* Whether `held` is what a write that stopped in the middle of `text` leaves.
IsCutOf(held, text) ==
  \E cut \in BOOLEAN :
    LET n == Len(held) - (IF cut THEN Len(Utf8Lead) ELSE 0)
    IN n >= 0 /\ n < Len(text) /\ held = Partial(text, n, cut)

\* C5 amended: nothing is printed or written before the whole text is
\* assembled, and no request is retried; a run that ends with status 1
\* because the request, the parse, the formatting or the opening of the file
\* failed has printed only the error message and written no file, and the
\* chunks buffered when the formatting of conversation idx failed (the last
\* of them its banner) are printed nowhere.  A failure later in the output
\* step can leave the text behind: a failed write leaves a proper prefix of
\* it in the file, and when printing the confirmation fails the file holds
\* all of it; standard output holds only the error message then too.
C5_NoOutputBeforeAssembled ==
  /\ requests_made <= 1
  /\ pc \in BeforeOutput => stdout = <<>> /\ file = NoFile
  /\ status = 1 /\ exc.at \in {"get", "raise_for_status", "json", "format", "open"} =>
       /\ file = NoFile
       /\ PrintOut(output_text) \notin Range(stdout)
       /\ Len(stdout) \in {1, 2}
       /\ exc.at # "open" => output_text = ""
  /\ status = 1 /\ exc.at = "format" =>
       /\ Len(output_lines) = 2 * idx
       /\ output_lines[2 * idx] = ConvHeader(idx, PyLen(conversations))
       /\ stdout = <<PrintOut("Unexpected error: " \o exc.msg)>>
  /\ status = 1 /\ exc.at = "write" =>
       /\ file.exists /\ IsCutOf(file.text, output_text)
       /\ stdout = <<PrintOut("Unexpected error: " \o exc.msg)>>
  /\ status = 1 /\ exc.at = "confirm" =>
       /\ file.exists /\ file.text = output_text
       /\ stdout = <<PrintOut("Unexpected error: " \o exc.msg)>>

\* C5 witness: the second conversation failed to format after the first was
\* buffered, and the run ended with status 1.
C5_Witness ==
  /\ status = 1 /\ exc.at = "format"
  /\ Len(output_lines) = 4
  /\ Truthy(output_file)

\* C6 as stated: a successful run with an output-file argument writes to the
\* file exactly what a run without the argument prints, and prints only the
\* confirmation; a run without the argument prints the text, writes no file.
C6_FileHoldsWhatIsPrinted ==
  Succeeded =>
    IF Len(argv) > 1
    THEN /\ file.exists
         /\ file.text = PrintOut(Join(OutputLinesOf(data)))
         /\ stdout = <<PrintOut(Confirmation(output_file))>>
    ELSE /\ stdout = <<PrintOut(Join(OutputLinesOf(data)))>>
         /\ file = NoFile

\* C6 amended: a successful run with a non-empty output-file argument writes
\* to the file the assembled text, which is what a run without the argument
\* prints for the same body less the line end print adds, and prints only the
\* confirmation; a run without the argument or with an empty argument prints
\* the text and writes no file.
C6_FileHoldsAssembledText ==
  Succeeded =>
    IF Len(argv) > 1 /\ argv[2] # <<>>
    THEN /\ file = [exists |-> TRUE, text |-> Join(OutputLinesOf(data))]
         /\ stdout = <<PrintOut("\n" \o CheckMark \o " Formatted transcripts saved to: "
                                \o Text(argv[2]))>>
    ELSE /\ stdout = <<Join(OutputLinesOf(data)) \o "\n">>
         /\ file = NoFile

\* C6 witness: the run with the argument out.txt wrote the transcript of a
\* two-message conversation to the file.
C6_Witness ==
  /\ Succeeded
  /\ argv = <<aScript, aOut>>
  /\ data = Obj([conversations |-> PyList(<<cvChat>>)])
  /\ file.exists /\ file.text # ""

\* The message list the specification names: "messages", or "transcript" when
\* "messages" is missing or empty.
ChosenMessages(c) ==
  IF Has(c, "messages") /\ Truthy(c.d["messages"]) THEN c.d["messages"]
  ELSE IF Has(c, "transcript") THEN c.d["transcript"]
  ELSE PyList(<<>>)

\* C7: a rendered block holds exactly one of "No transcript available." and
\* "TRANSCRIPT:"; the former exactly when "messages" and "transcript" are both
\* missing or empty, else the header with one entry per message, in order.
C7_TranscriptOrNotice ==
  SomeFormatted =>
    LET c == LastFormatted
        notice == "No transcript available." \in Range(lines)
        header == "TRANSCRIPT:" \in Range(lines)
        empty == /\ ~(Has(c, "messages") /\ Truthy(c.d["messages"]))
                 /\ ~(Has(c, "transcript") /\ Truthy(c.d["transcript"]))
        msgs == Iterate(ChosenMessages(c))
        entries == SelectSeq(lines, LAMBDA l : \E i \in 1..Len(msgs) : l = MessageHeader(msgs[i]))
    IN /\ notice # header
       /\ notice <=> empty
       /\ header => entries = [i \in 1..Len(msgs) |-> MessageHeader(msgs[i])]

\* C7 witness: a conversation with an empty "messages" and an empty
\* "transcript" was rendered with the notice.
C7_Witness ==
  /\ SomeFormatted
  /\ LastFormatted = Obj([id |-> PyStr(Chars("c1")), sessionId |-> PyStr(Chars("s1")),
                          messages |-> PyList(<<>>), transcript |-> PyList(<<>>)])
  /\ "No transcript available." \in Range(lines)

\* The block of conversation c when its transcript is rendered from msgs.
BlockFrom(c, msgs) ==
  HeaderLines(c)
  \o (IF Truthy(msgs)
      THEN <<"TRANSCRIPT:", Rep("-", RuleWidth)>> \o TranscriptLines(Iterate(msgs)).lines
           \o <<Rep("-", RuleWidth), "", "">>
      ELSE <<"No transcript available.", "", "">>)

\* C8 as stated: whenever "messages" is present, whatever its value, the
\* transcript is rendered from "messages" only; "transcript" is used only
\* when "messages" is absent.
C8_MessagesPresentWins ==
  SomeFormatted =>
    LET c == LastFormatted
    IN lines = BlockFrom(c, IF Has(c, "messages") THEN c.d["messages"]
                            ELSE Get(c, "transcript", PyList(<<>>)))

\* C8 amended: "messages" is rendered, and "transcript" left out, whenever
\* "messages" is present and not empty; "transcript" is rendered when
\* "messages" is absent or empty (an empty list, null).
C8_MessagesNonEmptyWins ==
  SomeFormatted =>
    LET c == LastFormatted
    IN lines = BlockFrom(c, IF Has(c, "messages") /\ Truthy(c.d["messages"])
                            THEN c.d["messages"]
                            ELSE Get(c, "transcript", PyList(<<>>)))

\* C8 witness: "messages" is an empty list and the message under
\* "transcript" was rendered.
C8_Witness ==
  /\ SomeFormatted
  /\ LastFormatted = Obj([id |-> PyStr(Chars("c1")), sessionId |-> PyStr(Chars("s1")),
                          messages |-> PyList(<<>>), transcript |-> PyList(<<mTranscript>>)])
  /\ "\n[BOT]" \in Range(lines)
  /\ "from transcript" \in Range(lines)

\* The label the specification gives a role value: absent keys fall back to
\* sender, then to "unknown"; a value that is no string is labelled like its
\* printed form.
ExpectedLabel(m) ==
  LET v == IF Has(m, "role") THEN m.d["role"]
           ELSE IF Has(m, "sender") THEN m.d["sender"] ELSE PyStr(sUnknown)
      low == IF IsStr(v) THEN Lower(v.s) ELSE <<"n","o","n","e">>
  IN IF low \in {sUser, sHuman} THEN "USER"
     ELSE IF low \in {sAssistant, sBot, sAi, sAgent} THEN "BOT"
     ELSE Text(Upper(low))

\* C9 as stated: every message gets a speaker label, without raising: from
\* "role", else "sender", else "unknown", lower-cased, user and human to
\* USER, assistant, bot, ai and agent to BOT, anything else upper-cased.
C9_EveryMessageLabelled ==
  /\ pc = "except" /\ exc.at = "format" =>
       LET c == Iterate(conversations)[idx]
       IN ~(/\ IsDict(c)
            /\ IsList(ChosenMessages(c))
            /\ \A i \in 1..Len(ChosenMessages(c).items) : IsDict(ChosenMessages(c).items[i]))
  /\ SomeFormatted =>
       LET msgs == Iterate(ChosenMessages(LastFormatted))
       IN \A i \in 1..Len(msgs) :
            \E l \in Range(lines) :
              l = "\n[" \o ExpectedLabel(msgs[i]) \o "]" \o TimestampSuffix(msgs[i])

AllDigits(cs, is) == \A i \in is : IsDigit(cs[i])

\* The form YYYY-MM-DD HH:MM:SS UTC.
HasUtcForm(cs) ==
  /\ Len(cs) = 23
  /\ AllDigits(cs, {1, 2, 3, 4, 6, 7, 9, 10, 12, 13, 15, 16, 18, 19})
  /\ cs[5] = "-" /\ cs[8] = "-" /\ cs[11] = " " /\ cs[14] = ":" /\ cs[17] = ":"
  /\ SubSeq(cs, 20, 23) = <<" ","U","T","C">>

\* C10 as stated: format_timestamp never raises; a value that parses as
\* ISO-8601 (a trailing Z read as +00:00) is returned as
\* YYYY-MM-DD HH:MM:SS UTC, any other value is returned unchanged, and a
\* timestamp never makes the run exit with an error.
C10_TimestampFormat ==
  SomeFormatted /\ IsDict(LastFormatted) /\ Has(LastFormatted, "createdAt") =>
    LET v == LastFormatted.d["createdAt"]
        r == format_timestamp(v)
        parses == IsStr(v) /\ ParsesIso(ReplaceZ(v.s))
    IN /\ r.exc = "none"
       /\ lines[4] = "Started: " \o Str(r.val)
       /\ parses => HasUtcForm(r.val.s)
       /\ ~parses => r.val = v

====
